---- MODULE Spec2Model ----
(***************************************************************************)
(* Model of the markdown editing commands of markdown-editor-core          *)
(* (src/lib/src/markdown-editor.ts, class MarkdownEditorBase) on top of a  *)
(* line-oriented text buffer with CodeMirror's position semantics.         *)
(*                                                                         *)
(* A line is a sequence of one-character strings, the buffer a non-empty   *)
(* sequence of lines.  Line numbers and columns are 0-based as in the      *)
(* code; line n of the code is lines[n + 1] here.                          *)
(***************************************************************************)
EXTENDS Integers, Sequences, FiniteSets, TLC

VARIABLES
  lines,    \* the buffer: sequence of lines
  sels,     \* the selections the editor holds (what listSelections returns)
  passed,   \* the ranges the last operation handed to setSelections
  calls,    \* the calls the last operation made to the editor, in order
  op,       \* the last operation: [name, arg]
  pre,      \* buffer and selections before the last operation
  orig,     \* buffer and selections after construction
  step,     \* number of operations invoked so far
  options,  \* this.options, the fields modelled here
  cmMode,   \* the editor's option 'mode'
  saver,    \* MarkdownEditorFromTextarea: this.saver is defined
  handlers, \* number of handlers registered for the editor's 'changes' event
  textarea  \* MarkdownEditorFromTextarea: the value of the textarea

vars == <<lines, sels, passed, calls, op, pre, orig, step,
          options, cmMode, saver, handlers, textarea>>

-----------------------------------------------------------------------------
(* Bounds of the model *)

MaxLines == 2      \* lines of an initial buffer
MaxChars == 3      \* characters of an initial buffer, all lines together
MaxSels == 2       \* selections of an initial selection list
MaxSmallChars == 2 \* characters of an initial buffer under all operations
MaxHashes == 7     \* leading hashes of an initial line
MaxBlanks == 2     \* blanks after the hashes of an initial line
MaxListLines == 3  \* lines of an initial buffer holding a list
MaxCalls == 3      \* operations invoked on an editor made from a textarea
ListNumbers == {3, 4, 5, 9}  \* numbers of the initial list items

-----------------------------------------------------------------------------
(* Sequences *)

Min(S) == CHOOSE x \in S : \A y \in S : x <= y

Slice(s, a, b) ==
  \* JavaScript's s.slice(a, b) for 0 <= a, b (clamped to the length)
  LET lo == IF a < 0 THEN 0 ELSE IF a > Len(s) THEN Len(s) ELSE a
      hi == IF b < 0 THEN 0 ELSE IF b > Len(s) THEN Len(s) ELSE b
  IN  IF lo >= hi THEN <<>> ELSE SubSeq(s, lo + 1, hi)

StartsWith(s, t) == Len(t) <= Len(s) /\ SubSeq(s, 1, Len(t)) = t

EndsWith(s, t) == Len(t) <= Len(s) /\ SubSeq(s, Len(s) - Len(t) + 1, Len(s)) = t

RECURSIVE Concat(_)
Concat(ss) == IF ss = <<>> THEN <<>> ELSE Head(ss) \o Concat(Tail(ss))

RECURSIVE TotalLen(_)
TotalLen(ls) == IF ls = <<>> THEN 0 ELSE Len(Head(ls)) + TotalLen(Tail(ls))

RECURSIVE SplitLines(_)
SplitLines(text) ==
  \* the lines of a text, "\n" being the line separator
  IF \A k \in 1..Len(text) : text[k] # "\n" THEN <<text>>
  ELSE LET k == Min({j \in 1..Len(text) : text[j] = "\n"})
       IN  <<SubSeq(text, 1, k - 1)>> \o SplitLines(SubSeq(text, k + 1, Len(text)))

CountNL(text) == Cardinality({k \in 1..Len(text) : text[k] = "\n"})

-----------------------------------------------------------------------------
(* Positions and ranges (CodeMirror.Position, CodeMirror.Range) *)

Pos(l, c) == [line |-> l, ch |-> c]

Cmp(a, b) == IF a.line # b.line THEN a.line - b.line ELSE a.ch - b.ch

\* A range holds two position objects; same = TRUE when anchor and head are
\* one and the same object, so that a write through one shows in the other.
Rng(a, h, s) == [anchor |-> a, head |-> h, same |-> s]

FromKey(r) == IF Cmp(r.anchor, r.head) < 0 THEN "anchor" ELSE "head"

ToKey(r) == IF Cmp(r.anchor, r.head) < 0 THEN "head" ELSE "anchor"

RFrom(r) == r[FromKey(r)]

RTo(r) == r[ToKey(r)]

Empty(r) == r.head.line = r.anchor.line /\ r.head.ch = r.anchor.ch

SetEnd(r, key, p) ==
  \* assignment to a field of the position object r[key]
  IF r.same THEN [r EXCEPT !.anchor = p, !.head = p] ELSE [r EXCEPT ![key] = p]

AddCh(r, key, d) == SetEnd(r, key, [r[key] EXCEPT !.ch = @ + d])

AddLine(r, key, d) == SetEnd(r, key, [r[key] EXCEPT !.line = @ + d])

\* A variant that leaves head the position object it was
HeadLeftApart(r) == r

HeadToAnchor(r) == [r EXCEPT !.head = r.anchor, !.same = TRUE]

AnchorToHead(r) == [r EXCEPT !.anchor = r.head, !.same = TRUE]

-----------------------------------------------------------------------------
(* The editor the commands drive (this.cm) *)

InBounds(ls, p) ==
  /\ p.line >= 0 /\ p.line < Len(ls)
  /\ p.ch >= 0 /\ p.ch <= Len(ls[p.line + 1])

\* A variant that brings the line into the text and leaves the column alone
ClipLineOnly(ls, p) ==
  IF p.line < 0 THEN Pos(0, p.ch)
  ELSE IF p.line > Len(ls) - 1 THEN Pos(Len(ls) - 1, p.ch)
  ELSE p

ClipPos(ls, p) ==
  IF p.line < 0 THEN Pos(0, 0)
  ELSE IF p.line > Len(ls) - 1 THEN Pos(Len(ls) - 1, Len(ls[Len(ls)]))
  ELSE IF p.ch > Len(ls[p.line + 1]) THEN Pos(p.line, Len(ls[p.line + 1]))
  ELSE IF p.ch < 0 THEN Pos(p.line, 0)
  ELSE p

GetLine(ls, n) == IF n >= 0 /\ n < Len(ls) THEN ls[n + 1] ELSE <<>>

GetRange(ls, a, b) ==
  \* the text between two positions of one line
  LET f == ClipPos(ls, a)
      t == ClipPos(ls, b)
  IN  Slice(ls[f.line + 1], f.ch, t.ch)

Call(fn, text, a, b, origin, ok) ==
  \* one call of a method of this.cm; ok: the positions handed over lie in the text
  [fn |-> fn, text |-> text, from |-> a, to |-> b, origin |-> origin, ok |-> ok]

AdjustForChange(p, f, t, e) ==
  \* where a position of the editor's own selection lies after the text
  \* between f and t was replaced by a text that ends at e
  IF Cmp(p, f) < 0 THEN p
  ELSE IF Cmp(p, t) <= 0 THEN e
  ELSE Pos(p.line + (e.line - t.line),
           IF p.line = t.line THEN p.ch + (e.ch - t.ch) ELSE p.ch)

ReplaceRange(ed, text, a, b, origin) ==
  \* ed = [lines, calls, live]: replace the text between a and b
  LET ls == ed.lines
      Splice(f, t, new, e) ==
        \* the text between f and t becomes the lines new, which end at e
        [lines |-> SubSeq(ls, 1, f.line)
                   \o (IF Len(new) = 1
                       THEN <<Slice(ls[f.line + 1], 0, f.ch) \o new[1]
                              \o Slice(ls[t.line + 1], t.ch, Len(ls[t.line + 1]))>>
                       ELSE <<Slice(ls[f.line + 1], 0, f.ch) \o new[1]>>
                            \o SubSeq(new, 2, Len(new) - 1)
                            \o <<new[Len(new)]
                                 \o Slice(ls[t.line + 1], t.ch, Len(ls[t.line + 1]))>>)
                   \o SubSeq(ls, t.line + 2, Len(ls)),
         calls |-> Append(ed.calls,
                     Call("replaceRange", text, a, b, origin, InBounds(ls, a) /\ InBounds(ls, b))),
         live |-> [k \in 1..Len(ed.live) |->
                     Rng(AdjustForChange(ed.live[k].anchor, f, t, e),
                         AdjustForChange(ed.live[k].head, f, t, e), FALSE)]]
      Clipped(f, t, new) ==
        Splice(f, t, new,
               Pos(f.line + Len(new) - 1,
                   IF Len(new) = 1 THEN f.ch + Len(new[1]) ELSE Len(new[Len(new)])))
      Ordered(ca, cb) ==
        IF Cmp(cb, ca) < 0 THEN Clipped(cb, ca, SplitLines(text))
        ELSE Clipped(ca, cb, SplitLines(text))
  IN  Ordered(ClipPos(ls, a), ClipPos(ls, b))

ListSelections(ed) ==
  [ed EXCEPT !.calls = Append(@, Call("listSelections", <<>>, Pos(0, 0), Pos(0, 0), "", TRUE))]

ClipRange(ls, r) == Rng(ClipPos(ls, r.anchor), ClipPos(ls, r.head), r.same)

SetSelections(ed, ranges, origin) ==
  [lines |-> ed.lines,
   calls |-> Append(ed.calls,
               Call("setSelections", <<>>, Pos(0, 0), Pos(0, 0), origin,
                    \A k \in 1..Len(ranges) :
                      InBounds(ed.lines, ranges[k].anchor) /\ InBounds(ed.lines, ranges[k].head))),
   live |-> [k \in 1..Len(ranges) |-> ClipRange(ed.lines, ranges[k])],
   passed |-> ranges]

Focus(ed) ==
  [ed EXCEPT !.calls = Append(@, Call("focus", <<>>, Pos(0, 0), Pos(0, 0), "", TRUE))]

Editor(ls, ss) == [lines |-> ls, calls |-> <<>>, live |-> ss]

-----------------------------------------------------------------------------
(* toggleInlineFormatting *)

\* the backquote character, which a TLA+ string cannot hold
Backquote == "bq"

BOLD_TOKENS == << <<"*", "*">>, <<"_", "_">> >>

ITALIC_TOKENS == << <<"*">>, <<"_">> >>

FindPrefixToken(toks, linePartBefore) ==
  \* Array.prototype.find: the first token the text ends with, <<>> when none
  LET hit == {k \in 1..Len(toks) : EndsWith(linePartBefore, toks[k])}
  IN  IF hit = {} THEN <<>> ELSE toks[Min(hit)]

FindSuffixToken(toks, linePartAfter) ==
  \* Array.prototype.find: the first token the text starts with, <<>> when none
  LET hit == {k \in 1..Len(toks) : StartsWith(linePartAfter, toks[k])}
  IN  IF hit = {} THEN <<>> ELSE toks[Min(hit)]

\* A variant that leaves the following selections where they were
ShiftNone(selections, j, from, to, before, after) == selections

RECURSIVE ShiftFollowing(_, _, _, _, _, _)
ShiftFollowing(selections, j, from, to, before, after) ==
  \* the loop over the selections after the processed one; before and after
  \* are the column shifts at from and at to
  IF j > Len(selections) THEN selections
  ELSE LET s0 == selections[j]
           HeadAfter(h) == IF h.head.line = to.line THEN AddCh(h, "head", after) ELSE h
           HeadShifted(s) == IF Empty(s) THEN HeadToAnchor(s)
                      ELSE HeadAfter(IF s.head.line = from.line
                                     THEN AddCh(s, "head", before) ELSE s)
           AnchorBefore(s) == IF s.anchor.line = from.line
                              THEN AddCh(s, "anchor", before) ELSE s
           AnchorAfter(s) ==
             \* the loop ends at the first selection whose anchor is on another line
             IF s.anchor.line = to.line
             THEN ShiftFollowing([selections EXCEPT ![j] = AddCh(s, "anchor", after)],
                                 j + 1, from, to, before, after)
             ELSE [selections EXCEPT ![j] = s]
       IN  AnchorAfter(AnchorBefore(HeadShifted(s0)))

RECURSIVE ToggleInlineLoop(_, _, _, _, _, _)
ToggleInlineLoop(ed, selections, newSelections, i, token, altTokens) ==
  IF i > Len(selections) THEN [ed |-> ed, newSelections |-> newSelections]
  ELSE
    LET oldSelection == selections[i]
        from == RFrom(oldSelection)
        to == RTo(oldSelection)
        endLineLength == Len(GetLine(ed.lines, to.line))
        linePartBefore == GetRange(ed.lines, Pos(from.line, 0), from)
        linePartAfter == GetRange(ed.lines, to, Pos(to.line, endLineLength))
        toks == <<token>> \o altTokens
        Suffix(suffixToken) ==
          \* the editor after the token at the end was removed or inserted
          IF suffixToken # <<>>
          THEN ReplaceRange(ed, <<>>, to,
                            Pos(to.line,
                                IF to.ch <= endLineLength - Len(suffixToken)
                                THEN to.ch + Len(suffixToken) ELSE endLineLength),
                            "+toggleBlock")
          ELSE ReplaceRange(ed, token, to, to, "+toggleBlock")
        Prefix(ed1, prefixToken) ==
          \* the editor after the token at the start was removed or inserted
          IF prefixToken # <<>>
          THEN ReplaceRange(ed1, <<>>,
                            Pos(from.line,
                                IF from.ch >= Len(prefixToken)
                                THEN from.ch - Len(prefixToken) ELSE 0),
                            from, "+toggleBlock")
          ELSE ReplaceRange(ed1, token, from, from, "+toggleBlock")
        Shifted(n1, beforeShift) == AddCh(n1, FromKey(n1), beforeShift * Len(token))
        Adjust(ed2, beforeShift, afterShift) ==
          ToggleInlineLoop(
            ed2,
            ShiftFollowing(selections, i + 1, from, to,
                           beforeShift * Len(token), afterShift * Len(token)),
            Append(newSelections,
                   Shifted(IF Empty(oldSelection) THEN HeadToAnchor(oldSelection)
                           ELSE IF from.line = to.line
                                THEN AddCh(oldSelection, ToKey(oldSelection),
                                           beforeShift * Len(token))
                                ELSE oldSelection,
                           beforeShift)),
            i + 1, token, altTokens)
        Toggle(prefixToken, suffixToken) ==
          Adjust(Prefix(Suffix(suffixToken), prefixToken),
                 IF prefixToken # <<>> THEN -1 ELSE 1,
                 IF suffixToken # <<>> THEN -1 ELSE 1)
    IN  Toggle(FindPrefixToken(toks, linePartBefore), FindSuffixToken(toks, linePartAfter))

ToggleInlineFormatting(ls, ss, token, altTokens) ==
  LET Done(r) == Focus(SetSelections(r.ed, r.newSelections, "+toggleBlock"))
  IN  Done(ToggleInlineLoop(ListSelections(Editor(ls, ss)), ss, <<>>, 1, token, altTokens))

-----------------------------------------------------------------------------
(* toggleInlineFormatting of class MarkdownEditor (src/src), the edition *)
(* without alternative tokens                                            *)

RECURSIVE MarkdownEditorToggleLoop(_, _, _, _, _, _)
MarkdownEditorToggleLoop(ed, selections, newSelections, i, currentShift, token) ==
  \* currentShift counts the tokens inserted (+1) and removed (-1) so far
  IF i > Len(selections) THEN [ed |-> ed, newSelections |-> newSelections]
  ELSE
    LET selection == AddCh(AddCh(selections[i], "anchor", currentShift * Len(token)),
                           "head", currentShift * Len(token))
        from == RFrom(selection)
        to == RTo(selection)
        endLineLength == Len(GetLine(ed.lines, to.line))
        prefixStart == Pos(from.line, IF from.ch >= Len(token) THEN from.ch - Len(token) ELSE 0)
        suffixEnd == Pos(to.line, IF to.ch <= endLineLength - Len(token)
                                  THEN to.ch + Len(token) ELSE endLineLength)
        hasPrefixToken == GetRange(ed.lines, prefixStart, from) = token
        hasSuffixToken == GetRange(ed.lines, to, suffixEnd) = token
        Suffix(ed0) ==
          IF hasSuffixToken THEN ReplaceRange(ed0, <<>>, to, suffixEnd, "+toggleBlock")
          ELSE ReplaceRange(ed0, token, to, to, "+toggleBlock")
        Prefix(ed1) ==
          IF hasPrefixToken THEN ReplaceRange(ed1, <<>>, prefixStart, from, "+toggleBlock")
          ELSE ReplaceRange(ed1, token, from, from, "+toggleBlock")
        HeadAdjusted(s, d) == IF ~Empty(s) THEN AddCh(s, "head", d) ELSE s
        Adjusted(d) == HeadAdjusted(AddCh(selection, "anchor", d), d)
    IN  MarkdownEditorToggleLoop(
          Prefix(Suffix(ed)), selections,
          Append(newSelections, Adjusted(IF hasPrefixToken THEN -Len(token) ELSE Len(token))),
          i + 1,
          currentShift + (IF hasSuffixToken THEN -1 ELSE 1)
                       + (IF hasPrefixToken THEN -1 ELSE 1),
          token)

MarkdownEditorToggleInlineFormatting(ls, ss, token) ==
  LET Done(r) == Focus(SetSelections(r.ed, r.newSelections, "+toggleBlock"))
  IN  Done(MarkdownEditorToggleLoop(ListSelections(Editor(ls, ss)), ss, <<>>, 1, 0, token))

-----------------------------------------------------------------------------
(* Line patterns and numerals *)

Digits == <<"0", "1", "2", "3", "4", "5", "6", "7", "8", "9">>

DigitChars == {Digits[k] : k \in 1..Len(Digits)}

DigitVal(c) == (CHOOSE k \in 1..Len(Digits) : Digits[k] = c) - 1

BlankChars == {" ", "\t"}

RECURSIVE ToStr(_)
ToStr(n) ==
  \* the decimal numeral of n >= 0
  IF n < 10 THEN <<Digits[n + 1]>> ELSE ToStr(n \div 10) \o <<Digits[(n % 10) + 1]>>

RECURSIVE ToNum(_)
ToNum(s) ==
  \* the number a string of decimal digits denotes (unary plus)
  IF s = <<>> THEN 0 ELSE ToNum(SubSeq(s, 1, Len(s) - 1)) * 10 + DigitVal(s[Len(s)])

RECURSIVE RunLen(_, _, _)
RunLen(line, k, chars) ==
  \* length of the longest run of characters of chars that starts at line[k]
  IF k > Len(line) \/ line[k] \notin chars THEN 0 ELSE 1 + RunLen(line, k + 1, chars)

\* Length of the match of each pattern at the start of a line, -1 for no match
OrderedListMatch(line) ==
  \* ORDERED_LIST_PATTERN = /^(\d)+\.(\t| )+/
  LET d == RunLen(line, 1, DigitChars)
      w == RunLen(line, d + 2, BlankChars)
  IN  IF d >= 1 /\ Len(line) >= d + 1 /\ line[d + 1] = "." /\ w >= 1
      THEN d + 1 + w ELSE -1

UnorderedListMatch(line) ==
  \* UNORDERED_LIST_PATTERN = /^(\*|-)(\t| )+/
  LET w == RunLen(line, 2, BlankChars)
  IN  IF Len(line) >= 1 /\ line[1] \in {"*", "-"} /\ w >= 1 THEN 1 + w ELSE -1

QuoteMatch(line) ==
  \* /^>(\t| )*/
  IF Len(line) >= 1 /\ line[1] = ">" THEN 1 + RunLen(line, 2, BlankChars) ELSE -1

\* A variant that matches no more than six hashes
HeadingMatchSix(line) ==
  LET h == Min({RunLen(line, 1, {"#"}), 6})
  IN  h + (IF h < Len(line) /\ line[h + 1] = " " THEN 1 ELSE 0)

HeadingMatch(line) ==
  \* /^((#)*( )?)/, which matches every line
  LET h == RunLen(line, 1, {"#"})
  IN  IF Len(line) > h /\ line[h + 1] = " " THEN h + 1 ELSE h

DotPos(line) == Min({k \in 1..Len(line) : line[k] = "."}) - 1

Drop(line, n) == SubSeq(line, n + 1, Len(line))

Repeat(c, n) == [k \in 1..n |-> c]

-----------------------------------------------------------------------------
(* Line-prefix operations *)

RECURSIVE NextLinesLoop(_, _, _)
NextLinesLoop(ed, nextLineNumber, listNumber) ==
  \* the while loop of processNextLinesOfOrderedList; listNumber is the
  \* number given to the line before nextLineNumber
  LET nextLine == GetLine(ed.lines, nextLineNumber)
  IN  IF nextLine # <<>> /\ OrderedListMatch(nextLine) # -1
      THEN NextLinesLoop(
             ReplaceRange(ed, ToStr(listNumber + 1), Pos(nextLineNumber, 0),
                          Pos(nextLineNumber, DotPos(nextLine)), "+replaceTokenAtLineStart"),
             nextLineNumber + 1, listNumber + 1)
      ELSE ed

\* A variant that starts at the edited line instead of the line below it
ProcessNextLinesFromBase(ed, baseLineNumber, baseListNumber) ==
  NextLinesLoop(ed, baseLineNumber, baseListNumber - 1)

\* A variant that numbers the following lines one too high
ProcessNextLinesOneHigher(ed, baseLineNumber, baseListNumber) ==
  NextLinesLoop(ed, baseLineNumber + 1, baseListNumber + 1)

ProcessNextLinesOfOrderedList(ed, baseLineNumber, baseListNumber) ==
  NextLinesLoop(ed, baseLineNumber + 1, baseListNumber)

HeadingToken(level) == Repeat("#", level) \o (IF level = 0 THEN <<>> ELSE <<" ">>)

SetHeadingLevelFn(ed, level, oldLineContent) ==
  [ed |-> ed,
   text |-> HeadingToken(level) \o Drop(oldLineContent, HeadingMatch(oldLineContent))]

ToggleQuoteFn(ed, oldLineContent) ==
  [ed |-> ed,
   text |-> IF QuoteMatch(oldLineContent) = -1
            THEN <<">", " ">> \o oldLineContent
            ELSE Drop(oldLineContent, QuoteMatch(oldLineContent))]

ToggleUnorderedListFn(ed, bullet, oldLineContent) ==
  LET preferred == <<bullet, " ">>
  IN  [ed |-> ed,
       text |-> IF UnorderedListMatch(oldLineContent) = -1
                THEN IF OrderedListMatch(oldLineContent) = -1
                     THEN preferred \o oldLineContent
                     ELSE preferred \o Drop(oldLineContent, OrderedListMatch(oldLineContent))
                ELSE Drop(oldLineContent, UnorderedListMatch(oldLineContent))]

\* A variant that never looks at the previous line: every new item is number 1
ToggleOrderedListFnFromOne(ed, oldLineContent, lineNumber) ==
  IF OrderedListMatch(oldLineContent) = -1
  THEN [ed |-> ProcessNextLinesOfOrderedList(ed, lineNumber, 1),
        text |-> IF UnorderedListMatch(oldLineContent) = -1
                 THEN <<"1", ".", " ">> \o oldLineContent
                 ELSE <<"1", ".", " ">>
                      \o Drop(oldLineContent, UnorderedListMatch(oldLineContent))]
  ELSE [ed |-> ProcessNextLinesOfOrderedList(ed, lineNumber, 0),
        text |-> Drop(oldLineContent, OrderedListMatch(oldLineContent))]

ToggleOrderedListFn(ed, oldLineContent, lineNumber) ==
  IF OrderedListMatch(oldLineContent) = -1
  THEN LET prevLine == GetLine(ed.lines, lineNumber - 1)
           Numbered(listNumber, numberToken) ==
             [ed |-> ProcessNextLinesOfOrderedList(ed, lineNumber, listNumber),
              text |-> IF UnorderedListMatch(oldLineContent) = -1
                       THEN numberToken \o oldLineContent
                       ELSE numberToken
                            \o Drop(oldLineContent, UnorderedListMatch(oldLineContent))]
           WithNumber(listNumber) == Numbered(listNumber, ToStr(listNumber) \o <<".", " ">>)
       IN  WithNumber(IF prevLine = <<>> \/ OrderedListMatch(prevLine) = -1
                      THEN 1
                      ELSE ToNum(SubSeq(prevLine, 1, DotPos(prevLine))) + 1)
  ELSE [ed |-> ProcessNextLinesOfOrderedList(ed, lineNumber, 0),
        text |-> Drop(oldLineContent, OrderedListMatch(oldLineContent))]

ReplaceFn(fn, ed, oldLineContent, lineNumber) ==
  \* the callback handed to replaceTokenAtLineStart
  CASE fn.name = "setHeadingLevel" -> SetHeadingLevelFn(ed, fn.arg, oldLineContent)
    [] fn.name = "toggleQuote" -> ToggleQuoteFn(ed, oldLineContent)
    [] fn.name = "toggleUnorderedList" -> ToggleUnorderedListFn(ed, fn.arg, oldLineContent)
    [] fn.name = "toggleOrderedList" -> ToggleOrderedListFn(ed, oldLineContent, lineNumber)

RECURSIVE ReplaceLines(_, _, _, _, _)
ReplaceLines(acc, fn, lineNumber, fromLine, toLine) ==
  \* the loop over the lines of one selection; acc = [ed, shiftFrom, shiftTo]
  IF lineNumber > toLine THEN acc
  ELSE LET oldLineContent == GetLine(acc.ed.lines, lineNumber)
           Replaced(r, shift) ==
             \* r = [ed, text]: the editor after the callback and the new line
             ReplaceLines([ed |-> ReplaceRange(r.ed, r.text, Pos(lineNumber, 0),
                                               Pos(lineNumber, Len(oldLineContent)),
                                               "+replaceTokenAtLineStart"),
                           shiftFrom |-> IF lineNumber = fromLine THEN shift ELSE acc.shiftFrom,
                           shiftTo |-> IF lineNumber = toLine THEN shift ELSE acc.shiftTo],
                          fn, lineNumber + 1, fromLine, toLine)
           NewLine(r) == Replaced(r, Len(r.text) - Len(oldLineContent))
       IN  NewLine(ReplaceFn(fn, acc.ed, oldLineContent, lineNumber))

AdjustBoundaries(selection, shiftFrom, shiftTo) ==
  \* "Adjust selection boundaries to originally selected boundaries"
  IF selection.anchor = RFrom(selection)
  THEN LET s1 == AddCh(selection, "anchor", shiftFrom)
       IN  IF ~Empty(s1) THEN AddCh(s1, "head", shiftTo) ELSE s1
  ELSE LET s1 == AddCh(selection, "anchor", shiftTo)
       IN  IF ~Empty(s1) THEN AddCh(s1, "head", shiftFrom) ELSE s1

RECURSIVE ReplaceTokenLoop(_, _, _, _, _)
ReplaceTokenLoop(ed, selections, newSelections, i, fn) ==
  IF i > Len(selections) THEN [ed |-> ed, newSelections |-> newSelections]
  ELSE LET selection == selections[i]
           Adjusted(r) ==
             ReplaceTokenLoop(r.ed, selections,
                              Append(newSelections,
                                     AdjustBoundaries(selection, r.shiftFrom, r.shiftTo)),
                              i + 1, fn)
       IN  Adjusted(ReplaceLines([ed |-> ed, shiftFrom |-> 0, shiftTo |-> 0], fn,
                                 RFrom(selection).line, RFrom(selection).line,
                                 RTo(selection).line))

ReplaceTokenAtLineStart(ls, ss, fn) ==
  LET Done(r) == Focus(SetSelections(r.ed, r.newSelections, "replaceTokenAtLineStart"))
  IN  Done(ReplaceTokenLoop(ListSelections(Editor(ls, ss)), ss, <<>>, 1, fn))

-----------------------------------------------------------------------------
(* insertCodeBlock *)

RECURSIVE RebaseFollowing(_, _, _, _)
RebaseFollowing(selections, j, oldTo, currentShift) ==
  \* the loop over the selections after the wrapped one
  IF j > Len(selections) THEN selections
  ELSE LET s0 == selections[j]
           remainderIndex == oldTo.ch
           FromCh(s) == IF RFrom(s).line = oldTo.line
                        THEN AddCh(s, FromKey(s), -remainderIndex) ELSE s
           ToCh(s) == IF RTo(s).line = oldTo.line
                      THEN AddCh(s, ToKey(s), -remainderIndex) ELSE s
           ToLine(s) == IF ~Empty(s) THEN AddLine(s, ToKey(s), currentShift) ELSE s
           FromLine(s) == AddLine(s, FromKey(s), currentShift)
       IN  RebaseFollowing([selections EXCEPT ![j] = FromLine(ToLine(ToCh(FromCh(s0))))],
                           j + 1, oldTo, currentShift)

RECURSIVE CodeBlockLoop(_, _, _, _, _)
CodeBlockLoop(ed, selections, newSelections, i, preferredToken) ==
  IF i > Len(selections) THEN [ed |-> ed, newSelections |-> newSelections]
  ELSE
    LET oldSelection == selections[i]
        atLineStart == RFrom(oldSelection).ch <= 0
        currentShift == IF atLineStart THEN 3 ELSE 4
        startToken == (IF atLineStart THEN <<>> ELSE <<"\n">>) \o preferredToken \o <<"\n">>
        ed1 == ReplaceRange(ed, <<"\n">> \o preferredToken \o <<"\n">>,
                            RTo(oldSelection), RTo(oldSelection), "+insertCodeBlock")
        ed2 == ReplaceRange(ed1, startToken, RFrom(oldSelection), RFrom(oldSelection),
                            "+insertCodeBlock")
        offset == IF RFrom(oldSelection).line = RTo(oldSelection).line
                  THEN RFrom(oldSelection).ch ELSE 0
        ToShifted(m) == AddCh(m, ToKey(m), -offset)
        FromShifted(n1) == AddLine(n1, FromKey(n1), currentShift - 2)
        FromAtLineStart(n2) == SetEnd(n2, FromKey(n2), [n2[FromKey(n2)] EXCEPT !.ch = 0])
        newSelection ==
          FromAtLineStart(
            FromShifted(IF ~Empty(oldSelection)
                        THEN ToShifted(AddLine(oldSelection, ToKey(oldSelection),
                                               currentShift - 2))
                        ELSE AnchorToHead(oldSelection)))
    IN  CodeBlockLoop(ed2,
                      RebaseFollowing(selections, i + 1, RTo(oldSelection), currentShift),
                      Append(newSelections, newSelection), i + 1, preferredToken)

InsertCodeBlock(ls, ss, preferredToken) ==
  LET Done(r) == Focus(SetSelections(r.ed, r.newSelections, "+insertCodeBlock"))
  IN  Done(CodeBlockLoop(ListSelections(Editor(ls, ss)), ss, <<>>, 1, preferredToken))

-----------------------------------------------------------------------------
(* insertInlineTemplate *)

RECURSIVE InlineTemplateLoop(_, _, _, _, _, _)
InlineTemplateLoop(ed, selections, newSelections, i, before, after) ==
  IF i > Len(selections) THEN [ed |-> ed, newSelections |-> newSelections]
  ELSE
    LET oldSelection == selections[i]
        ed1 == ReplaceRange(ed, after, RTo(oldSelection), RTo(oldSelection), "+toggleBlock")
        ed2 == ReplaceRange(ed1, before, RFrom(oldSelection), RFrom(oldSelection), "+toggleBlock")
        FromShifted(n1) == AddCh(n1, FromKey(n1), Len(before))
        newSelection == FromShifted(IF Empty(oldSelection) THEN HeadToAnchor(oldSelection)
                                    ELSE AddCh(oldSelection, ToKey(oldSelection),
                                               Len(before)))
    IN  InlineTemplateLoop(ed2,
                           ShiftFollowing(selections, i + 1, RFrom(oldSelection),
                                          RTo(oldSelection), Len(before), Len(after)),
                           Append(newSelections, newSelection), i + 1, before, after)

InsertInlineTemplate(ls, ss, before, after) ==
  LET Done(r) == Focus(SetSelections(r.ed, r.newSelections, "+toggleBlock"))
  IN  Done(InlineTemplateLoop(ListSelections(Editor(ls, ss)), ss, <<>>, 1, before, after))

-----------------------------------------------------------------------------
(* insertBlockTemplateBelow, insertHorizontalLine, insertTable *)

RECURSIVE BlockTemplateLoop(_, _, _, _, _)
BlockTemplateLoop(ed, selections, i, template, currentShift) ==
  \* template and currentShift are the loop's running variables
  IF i > Len(selections) THEN ed
  ELSE
    LET oldSelection == selections[i]
        FromShifted(n1) == AddLine(n1, FromKey(n1), currentShift)
        newSelection == FromShifted(IF Empty(oldSelection) THEN HeadToAnchor(oldSelection)
                                    ELSE AddLine(oldSelection, ToKey(oldSelection),
                                                 currentShift))
        Insert(toLineEnd, template1) ==
          BlockTemplateLoop(
            ReplaceRange(ed, template1, toLineEnd, toLineEnd, "+insertHorizontalLine"),
            selections, i + 1, template1, currentShift + CountNL(template1))
        Below(toLineNumber, toLineLength) ==
          Insert(Pos(toLineNumber, toLineLength),
                 IF toLineLength > 0 THEN <<"\n">> \o template ELSE template)
        OnLine(toLineNumber) == Below(toLineNumber, Len(GetLine(ed.lines, toLineNumber)))
    IN  OnLine(RTo(newSelection).line)

InsertBlockTemplateBelow(ls, ss, template) ==
  \* no selections are handed to the editor, which keeps its own
  LET Done(ed1) ==
        [lines |-> ed1.lines, calls |-> ed1.calls, live |-> ed1.live, passed |-> <<>>]
  IN  Done(Focus(BlockTemplateLoop(ListSelections(Editor(ls, ss)), ss, 1, template, 0)))

HorizontalLineTemplate(preferred) == <<"\n">> \o preferred \o <<"\n", "\n">>

ColumnCell(c) == <<"|", " ", "C", "o", "l", "u", "m", "n", " ">> \o ToStr(c) \o <<" ">>

DashCell == <<"|", " ", "-", "-", "-", "-", "-", "-", "-", "-", " ">>

ContentCell == <<"|", " ", "C", "o", "n", "t", "e", "n", "t", " ", " ">>

TableTemplate(rows, columns) ==
  LET row == Concat([c \in 1..columns |-> ContentCell]) \o <<"|", "\n">>
  IN  <<"\n">> \o Concat([c \in 1..columns |-> ColumnCell(c)]) \o <<"|", "\n">>
      \o Concat([c \in 1..columns |-> DashCell]) \o <<"|", "\n">>
      \o Concat([r \in 1..rows |-> row]) \o <<"\n">>

InsertTableTemplate(tableOptions, rows, columns) ==
  \* the template insertTable(rows, columns) inserts; 0 stands for an
  \* argument that was not given
  IF tableOptions.kind = "string" THEN tableOptions.text
  ELSE TableTemplate(IF rows = 0 THEN tableOptions.rows ELSE rows,
                     IF columns = 0 THEN tableOptions.columns ELSE columns)

-----------------------------------------------------------------------------
(* Initial states: the editor after construction, holding some text and *)
(* some selections                                                       *)

InlineChars == {"a", "*", "_"}

PlainChars == {"a", "b"}

SmallChars == {"a", "*"}

LinesOver(chars, n) == UNION {[1..k -> chars] : k \in 0..n}

BuffersOver(lineSet, maxLines, maxChars) ==
  {b \in UNION {[1..k -> lineSet] : k \in 1..maxLines} : TotalLen(b) <= maxChars}

Positions(ls) ==
  UNION {{Pos(l, c) : c \in 0..Len(ls[l + 1])} : l \in 0..(Len(ls) - 1)}

RangesOn(ps) ==
  {Rng(a, h, FALSE) : a \in ps, h \in ps} \cup {Rng(a, a, TRUE) : a \in ps}

\* listSelections returns the ranges in document order, none touching the next
Separated(ss) ==
  \A k \in 1..(Len(ss) - 1) : Cmp(RTo(ss[k]), RFrom(ss[k + 1])) < 0

SelectionLists(ps, maxSels) ==
  {ss \in UNION {[1..k -> RangesOn(ps)] : k \in 1..maxSels} : Separated(ss)}

Start(ls, ss) ==
  /\ lines = ls
  /\ sels = ss
  /\ passed = <<>>
  /\ calls = <<>>
  /\ op = [name |-> "new", arg |-> <<>>]
  /\ pre = [lines |-> ls, sels |-> ss]
  /\ orig = [lines |-> ls, sels |-> ss]
  /\ step = 0
  /\ options = [richTextMode |-> TRUE, lineWrapping |-> FALSE, autoSync |-> FALSE]
  /\ cmMode = "gfm"
  /\ saver = FALSE
  /\ handlers = 0
  /\ textarea = <<>>

InitInline ==
  \E ls \in BuffersOver(LinesOver(InlineChars, MaxChars), MaxLines, MaxChars) :
    \E ss \in SelectionLists(Positions(ls), MaxSels) : Start(ls, ss)

InitBlock ==
  \E ls \in BuffersOver(LinesOver(PlainChars, MaxChars), MaxLines, MaxChars) :
    \E ss \in SelectionLists(Positions(ls), MaxSels) : Start(ls, ss)

\* Carets at the start of a line and selections of whole lines
LineSelections(ls) ==
  {<<Rng(Pos(l, 0), Pos(l, 0), TRUE)>> : l \in 0..(Len(ls) - 1)} \cup
  {<<Rng(Pos(l, 0), Pos(m, Len(ls[m + 1])), FALSE)>> :
     l \in 0..(Len(ls) - 1), m \in 0..(Len(ls) - 1)} \cup
  {<<Rng(Pos(m, Len(ls[m + 1])), Pos(l, 0), FALSE)>> :
     l \in 0..(Len(ls) - 1), m \in 0..(Len(ls) - 1)}

\* Lines with a heading marker: hashes, blanks, text
HeadingLines ==
  {Repeat("#", h) \o Repeat(" ", b) \o t :
     h \in 0..MaxHashes, b \in 0..MaxBlanks, t \in {<<>>, <<"a">>, <<"a", "#">>}}

\* The second line of a text of two lines with headings
SecondLines == {<<>>, <<"#", "#", " ", "b">>, <<"b">>}

InitHeading ==
  \/ \E l \in HeadingLines :
       \E ss \in SelectionLists(Positions(<<l>>), 1) : Start(<<l>>, ss)
  \/ \E l \in HeadingLines, m \in SecondLines :
       \E ss \in LineSelections(<<l, m>>) : Start(<<l, m>>, ss)

\* The markers of the lines of a list: none, a bullet, a number
ListMarkers ==
  {<<>>, <<"-", " ">>} \cup {ToStr(n) \o <<".", " ">> : n \in ListNumbers}

Letters == <<"a", "b", "c", "d", "e">>

\* Line i of a list is empty or holds a marker and its own letter
ListLinesAt(i) == {<<>>} \cup {m \o <<Letters[i]>> : m \in ListMarkers}

RECURSIVE ListBuffers(_)
ListBuffers(k) ==
  IF k = 0 THEN {<<>>}
  ELSE {Append(b, l) : b \in ListBuffers(k - 1), l \in ListLinesAt(k)}

InitList ==
  \E k \in 1..MaxListLines :
    \E ls \in ListBuffers(k) :
      \E ss \in LineSelections(ls) : Start(ls, ss)

\* Lines with and without a marker of every kind
MarkedLines ==
  {<<"a", "b">>, <<">", "a">>, <<">", " ", "a">>, <<"-", " ", "a">>,
   <<"1", ".", " ", "a">>, <<"3", ".", "a">>, <<"0", "4", ".", " ", "\t", "a">>,
   <<"#", " ", "a">>, <<" ", "a">>}

InitPrefix ==
  \/ \E l \in MarkedLines :
       \E ss \in SelectionLists(Positions(<<l>>), MaxSels) : Start(<<l>>, ss)
  \/ \E ls \in [1..MaxLines -> MarkedLines] :
       \E ss \in SelectionLists(Positions(ls), 1) : Start(ls, ss)

-----------------------------------------------------------------------------
(* Actions: one per public operation *)

\* An operation is invoked on the state after construction, or once more on
\* the state its first invocation left, when that holds one selection.
MayInvoke(o) == step = 0 \/ (step = 1 /\ op = o /\ Len(sels) = 1)

Invoke(o, res) ==
  /\ MayInvoke(o)
  /\ lines' = res.lines
  /\ sels' = res.live
  /\ passed' = res.passed
  /\ calls' = res.calls
  /\ op' = o
  /\ pre' = [lines |-> lines, sels |-> sels]
  /\ orig' = orig
  /\ step' = step + 1
  /\ UNCHANGED <<options, cmMode, saver, handlers, textarea>>

Others(toks, preferred) == SelectSeq(toks, LAMBDA t : t # preferred)

ToggleBold ==
  \E k \in 1..Len(BOLD_TOKENS) :
    LET preferred == BOLD_TOKENS[k]
    IN  Invoke([name |-> "toggleBold", arg |-> preferred],
               ToggleInlineFormatting(lines, sels, preferred, Others(BOLD_TOKENS, preferred)))

ToggleItalic ==
  \E k \in 1..Len(ITALIC_TOKENS) :
    LET preferred == ITALIC_TOKENS[k]
    IN  Invoke([name |-> "toggleItalic", arg |-> preferred],
               ToggleInlineFormatting(lines, sels, preferred, Others(ITALIC_TOKENS, preferred)))

ToggleStrikethrough ==
  Invoke([name |-> "toggleStrikethrough", arg |-> <<"~", "~">>],
         ToggleInlineFormatting(lines, sels, <<"~", "~">>, <<>>))

ToggleInlineCode ==
  Invoke([name |-> "toggleInlineCode", arg |-> <<Backquote>>],
         ToggleInlineFormatting(lines, sels, <<Backquote>>, <<>>))

SetHeadingLevel ==
  \E level \in 0..6 :
    LET o == [name |-> "setHeadingLevel", arg |-> level]
    IN  Invoke(o, ReplaceTokenAtLineStart(lines, sels, o))

ToggleQuote ==
  LET o == [name |-> "toggleQuote", arg |-> <<>>]
  IN  Invoke(o, ReplaceTokenAtLineStart(lines, sels, o))

\* options.preferredTokens.unorderedList
BulletTokens == {"-", "*"}

ToggleUnorderedList ==
  \E bullet \in BulletTokens :
    LET o == [name |-> "toggleUnorderedList", arg |-> bullet]
    IN  Invoke(o, ReplaceTokenAtLineStart(lines, sels, o))

ToggleOrderedList ==
  LET o == [name |-> "toggleOrderedList", arg |-> <<>>]
  IN  Invoke(o, ReplaceTokenAtLineStart(lines, sels, o))

\* options.preferredTokens.codeBlock
CodeBlockTokens == {<<Backquote, Backquote, Backquote>>, <<"~", "~", "~">>}

InsertCodeBlockOp ==
  \E preferredToken \in CodeBlockTokens :
    Invoke([name |-> "insertCodeBlock", arg |-> preferredToken],
           InsertCodeBlock(lines, sels, preferredToken))

\* options.preferredTemplates.link and .imageLink
LinkTemplate == << <<"[">>, <<"]", "(", ")">> >>

ImageLinkTemplate == << <<"!", "[">>, <<"]", "(", ")">> >>

InsertLink ==
  Invoke([name |-> "insertLink", arg |-> LinkTemplate],
         InsertInlineTemplate(lines, sels, LinkTemplate[1], LinkTemplate[2]))

InsertImageLink ==
  Invoke([name |-> "insertImageLink", arg |-> ImageLinkTemplate],
         InsertInlineTemplate(lines, sels, ImageLinkTemplate[1], ImageLinkTemplate[2]))

\* options.preferredTokens.horizontalLine
HorizontalLineTokens == {<<"-", "-", "-">>}

InsertHorizontalLine ==
  \E preferred \in HorizontalLineTokens :
    Invoke([name |-> "insertHorizontalLine", arg |-> HorizontalLineTemplate(preferred)],
           InsertBlockTemplateBelow(lines, sels, HorizontalLineTemplate(preferred)))

\* options.preferredTemplates.table, and the arguments of insertTable
TableOptions ==
  {[kind |-> "string", text |-> <<"|", "x", "|", "\n">>, rows |-> 0, columns |-> 0],
   [kind |-> "size", text |-> <<>>, rows |-> 1, columns |-> 2]}

TableArgs == {<<0, 0>>, <<2, 1>>}

InsertTable ==
  \E tableOptions \in TableOptions, args \in TableArgs :
    LET template == InsertTableTemplate(tableOptions, args[1], args[2])
    IN  Invoke([name |-> "insertTable", arg |-> template],
               InsertBlockTemplateBelow(lines, sels, template))

\* The operations of class MarkdownEditor (src/src) and their tokens
MarkdownEditorTokens ==
  [toggleBold |-> <<"*", "*">>, toggleItalic |-> <<"*">>,
   toggleStrikethrough |-> <<"~", "~">>, toggleInlineCode |-> <<Backquote>>]

MarkdownEditorToggle ==
  \E name \in DOMAIN MarkdownEditorTokens :
    Invoke([name |-> "MarkdownEditor." \o name, arg |-> MarkdownEditorTokens[name]],
           MarkdownEditorToggleInlineFormatting(lines, sels, MarkdownEditorTokens[name]))

NextInline ==
  \/ ToggleBold \/ ToggleItalic \/ ToggleStrikethrough \/ ToggleInlineCode
  \/ MarkdownEditorToggle
  \/ InsertLink \/ InsertImageLink

SpecInline == InitInline /\ [][NextInline]_vars

NextPrefix == SetHeadingLevel \/ ToggleQuote \/ ToggleUnorderedList \/ ToggleOrderedList

NextBlock == InsertCodeBlockOp \/ InsertHorizontalLine \/ InsertTable

Next ==
  \/ ToggleBold \/ ToggleItalic \/ ToggleStrikethrough \/ ToggleInlineCode
  \/ SetHeadingLevel \/ ToggleQuote \/ ToggleUnorderedList \/ ToggleOrderedList
  \/ InsertCodeBlockOp \/ InsertLink \/ InsertImageLink
  \/ InsertHorizontalLine \/ InsertTable

Init ==
  \E ls \in BuffersOver(LinesOver(SmallChars, MaxSmallChars), MaxLines, MaxSmallChars) :
    \E ss \in SelectionLists(Positions(ls), MaxSels) : Start(ls, ss)

Spec == Init /\ [][Next]_vars

SpecPrefix == InitPrefix /\ [][NextPrefix]_vars

SpecHeading == InitHeading /\ [][NextPrefix]_vars

SpecList == InitList /\ [][NextPrefix]_vars

SpecBlock == InitBlock /\ [][NextBlock]_vars

-----------------------------------------------------------------------------
(* Properties *)

InlineOps == {"toggleBold", "toggleItalic", "toggleStrikethrough", "toggleInlineCode"}

PrefixOps == {"setHeadingLevel", "toggleQuote", "toggleUnorderedList", "toggleOrderedList"}

\* The lines of text a range covers
TextOf(ls, r) ==
  IF RFrom(r).line = RTo(r).line
  THEN <<Slice(ls[RFrom(r).line + 1], RFrom(r).ch, RTo(r).ch)>>
  ELSE <<Slice(ls[RFrom(r).line + 1], RFrom(r).ch, Len(ls[RFrom(r).line + 1]))>>
       \o SubSeq(ls, RFrom(r).line + 2, RTo(r).line)
       \o <<Slice(ls[RTo(r).line + 1], 0, RTo(r).ch)>>

\* C1: an inline toggle invoked twice in a row on one selection, the second
\* time on the selection the first installed, leaves the text equal to the
\* original text and the selection's anchor and head equal to the original
\* anchor and head.
C1_ToggleTwiceRestores ==
  (step = 2 /\ op.name \in InlineOps) =>
    /\ lines = orig.lines
    /\ sels[1].anchor = orig.sels[1].anchor
    /\ sels[1].head = orig.sels[1].head

\* C2: after one inline toggle on a list of separate selections, every
\* installed selection covers in the new text the text the selection of the
\* same index covered in the old text, and an empty selection stays empty.
C2_ToggleKeepsSelectedText ==
  (step = 1 /\ op.name \in InlineOps) =>
    \A i \in 1..Len(sels) : TextOf(lines, sels[i]) = TextOf(pre.lines, pre.sels[i])

-----------------------------------------------------------------------------
(* Ordered lists *)

IsNumbered(line) == line # <<>> /\ OrderedListMatch(line) # -1

NumeralOf(line) == SubSeq(line, 1, DotPos(line))

FromDot(line) == Drop(line, DotPos(line))

Unbulleted(line) ==
  IF UnorderedListMatch(line) = -1 THEN line ELSE Drop(line, UnorderedListMatch(line))

\* The numbers (from 0) of the numbered lines in one run directly below line l
RunBelow(ls, l) ==
  {k \in (l + 1)..(Len(ls) - 1) : \A m \in (l + 1)..k : IsNumbered(ls[m + 1])}

FirstLine == RFrom(pre.sels[1]).line

LastLine == RTo(pre.sels[1]).line

OrderedToggled == step >= 1 /\ op.name = "toggleOrderedList"

\* C3 as stated: toggleOrderedList on a selected numbered line strips its
\* marker and gives every line of the numbered run directly below its prior
\* number minus one.
C3_RenumbersPriorMinusOne ==
  (OrderedToggled /\ FirstLine = LastLine /\ IsNumbered(pre.lines[FirstLine + 1])) =>
    /\ lines[FirstLine + 1] =
         Drop(pre.lines[FirstLine + 1], OrderedListMatch(pre.lines[FirstLine + 1]))
    /\ \A k \in RunBelow(pre.lines, FirstLine) :
         lines[k + 1] = ToStr(ToNum(NumeralOf(pre.lines[k + 1])) - 1) \o FromDot(pre.lines[k + 1])

\* C3 amended: toggleOrderedList with only one line selected, a numbered
\* line, strips its marker and numbers the lines of the numbered run directly
\* below it 1, 2, 3, ... from the top; every other line stays as it was.
C3_RenumbersFromOne ==
  (OrderedToggled /\ FirstLine = LastLine /\ IsNumbered(pre.lines[FirstLine + 1])) =>
    /\ Len(lines) = Len(pre.lines)
    /\ lines[FirstLine + 1] =
         Drop(pre.lines[FirstLine + 1], OrderedListMatch(pre.lines[FirstLine + 1]))
    /\ \A k \in RunBelow(pre.lines, FirstLine) :
         lines[k + 1] = ToStr(k - FirstLine) \o FromDot(pre.lines[k + 1])
    /\ \A k \in 0..(Len(lines) - 1) :
         (k # FirstLine /\ k \notin RunBelow(pre.lines, FirstLine)) =>
           lines[k + 1] = pre.lines[k + 1]

\* "3. a", "4. b", "5. c" with the first line selected became "a", "1. b", "2. c"
C3_Renumbered ==
  /\ step = 1 /\ op.name = "toggleOrderedList"
  /\ pre.lines = << <<"3", ".", " ", "a">>, <<"4", ".", " ", "b">>, <<"5", ".", " ", "c">> >>
  /\ RFrom(pre.sels[1]) = Pos(0, 0) /\ RTo(pre.sels[1]) = Pos(0, 4)
  /\ lines = << <<"a">>, <<"1", ".", " ", "b">>, <<"2", ".", " ", "c">> >>

\* C4: toggleOrderedList gives every selected line that had no number the
\* marker "<n>. " in place of its bullet, if it had one; n is 1 when the
\* line before it is missing or is no numbered item, and else that line's
\* number plus 1; the numbered lines in one run directly below are then
\* numbered n+1, n+2, ... The line before the first selected line is the one
\* the text held before the operation.
C4_InsertsNextNumber ==
  OrderedToggled =>
    /\ FirstLine > 0 => lines[FirstLine] = pre.lines[FirstLine]
    /\ \A l \in FirstLine..LastLine :
         ~IsNumbered(pre.lines[l + 1]) =>
           LET n == IF l = 0 \/ ~IsNumbered(lines[l]) THEN 1
                    ELSE ToNum(NumeralOf(lines[l])) + 1
           IN  /\ lines[l + 1] = ToStr(n) \o <<".", " ">> \o Unbulleted(pre.lines[l + 1])
               /\ \A k \in RunBelow(lines, l) : NumeralOf(lines[k + 1]) = ToStr(n + (k - l))

\* "9. a", "- b", "3. c" with a caret on the second line became
\* "9. a", "10. b", "11. c"
C4_Numbered ==
  /\ step = 1 /\ op.name = "toggleOrderedList"
  /\ pre.lines = << <<"9", ".", " ", "a">>, <<"-", " ", "b">>, <<"3", ".", " ", "c">> >>
  /\ FirstLine = 1 /\ LastLine = 1
  /\ lines = << <<"9", ".", " ", "a">>, <<"1", "0", ".", " ", "b">>,
                <<"1", "1", ".", " ", "c">> >>

-----------------------------------------------------------------------------
(* Block templates *)

BelowOps == {"insertHorizontalLine", "insertTable"}

\* The insertions of the last operation, in the order they were made
Insertions == SelectSeq(calls, LAMBDA c : c.fn = "replaceRange")

RECURSIVE LinesAdded(_)
LinesAdded(j) == IF j = 0 THEN 0 ELSE LinesAdded(j - 1) + CountNL(Insertions[j].text)

\* Where the line that was line o of the old text lies after the first j
\* insertions: an insertion at the end of a line moves the lines below it
RECURSIVE LineNow(_, _)
LineNow(o, j) ==
  IF j = 0 THEN o
  ELSE IF Insertions[j].from.line < LineNow(o, j - 1)
       THEN LineNow(o, j - 1) + CountNL(Insertions[j].text)
       ELSE LineNow(o, j - 1)

\* C5: insertBlockTemplateBelow makes one insertion per selection; the
\* insertion for selection i is on the line that held the end of selection i
\* in the old text, and that line is the old end line plus the number of
\* lines the insertions for the selections before i added.
C5_InsertsBelowOwnLine ==
  (step = 1 /\ op.name \in BelowOps) =>
    /\ Len(Insertions) = Len(pre.sels)
    /\ \A i \in 1..Len(pre.sels) :
         /\ Insertions[i].from.line = LineNow(RTo(pre.sels[i]).line, i - 1)
         /\ Insertions[i].from.line = RTo(pre.sels[i]).line + LinesAdded(i - 1)

-----------------------------------------------------------------------------
(* Code blocks *)

\* One selection that is not empty, lies within one line and starts after
\* the first column was wrapped
WrappedPart ==
  /\ step >= 1 /\ op.name = "insertCodeBlock"
  /\ Len(pre.sels) = 1 /\ ~Empty(pre.sels[1])
  /\ FirstLine = LastLine /\ RFrom(pre.sels[1]).ch > 0

\* C6: insertCodeBlock on one selection that is not empty, lies within one
\* line P+S+R and covers S, with P not empty, replaces that line by the lines
\* P, fence, S, fence, R; the selection the editor then holds spans the line
\* S from column 0 to column length(S).
C6_WrapsSelectedPart ==
  WrappedPart =>
    LET old == pre.lines[FirstLine + 1]
        P == Slice(old, 0, RFrom(pre.sels[1]).ch)
        S == Slice(old, RFrom(pre.sels[1]).ch, RTo(pre.sels[1]).ch)
        R == Slice(old, RTo(pre.sels[1]).ch, Len(old))
    IN  /\ lines = SubSeq(pre.lines, 1, FirstLine) \o <<P, op.arg, S, op.arg, R>>
                   \o SubSeq(pre.lines, FirstLine + 2, Len(pre.lines))
        /\ Len(sels) = 1
        /\ RFrom(sels[1]) = Pos(FirstLine + 2, 0)
        /\ RTo(sels[1]) = Pos(FirstLine + 2, Len(S))

\* "aab" with "b" selected was wrapped: P is longer than S, and R is empty
C6_Wrapped ==
  /\ WrappedPart /\ step = 1
  /\ pre.lines = << <<"a", "a", "b">> >>
  /\ pre.sels[1].anchor = Pos(0, 2) /\ pre.sels[1].head = Pos(0, 3)
  /\ lines = << <<"a", "a">>, op.arg, <<"b">>, op.arg, <<>> >>

-----------------------------------------------------------------------------
(* Selections after the line-prefix operations *)

\* Where a position of the old text lies when its line has grown or shrunk
\* at the start; a position inside a removed marker goes to the line start
Moved(p) ==
  Pos(p.line,
      IF p.ch + Len(lines[p.line + 1]) - Len(pre.lines[p.line + 1]) < 0 THEN 0
      ELSE p.ch + Len(lines[p.line + 1]) - Len(pre.lines[p.line + 1]))

\* C7: after a line-prefix operation every selection the editor holds has
\* its anchor and its head moved by the length change of the line each of
\* them is on, so that it covers the text it covered before.
C7_PrefixKeepsSelections ==
  (step = 1 /\ op.name \in PrefixOps) =>
    \A i \in 1..Len(sels) :
      /\ sels[i].anchor = Moved(pre.sels[i].anchor)
      /\ sels[i].head = Moved(pre.sels[i].head)

-----------------------------------------------------------------------------
(* All operations *)

\* C8: every position an operation hands to replaceRange or setSelections
\* lies in the text at the time of the call.
C8_PositionsInBounds == \A k \in 1..Len(calls) : calls[k].ok

\* C9: in every selection the editor holds after an operation, the end that
\* was from() of the selection before is not after the end that was to().
C9_KeepsOrientation ==
  step >= 1 =>
    \A i \in 1..Len(sels) :
      Cmp(sels[i][FromKey(pre.sels[i])], sels[i][ToKey(pre.sels[i])]) <= 0

-----------------------------------------------------------------------------
(* Headings *)

\* The length of the run of hashes a line starts with
HashRun(line) ==
  CHOOSE h \in 0..Len(line) :
    /\ \A k \in 1..h : line[k] = "#"
    /\ h = Len(line) \/ line[h + 1] # "#"

\* The line without its first h characters and without the blank after them
WithoutMarker(line, h) ==
  IF h < Len(line) /\ line[h + 1] = " " THEN SubSeq(line, h + 2, Len(line))
  ELSE SubSeq(line, h + 1, Len(line))

HeadingSet == step >= 1 /\ op.name = "setHeadingLevel"

\* C10 as stated: setHeadingLevel(level) replaces each selected line by the
\* marker of the level followed by the old line without its leading run of
\* zero to six hashes and the blank after them.
C10_StripsUpToSixHashes ==
  HeadingSet =>
    \A l \in FirstLine..LastLine :
      lines[l + 1] =
        HeadingToken(op.arg)
        \o WithoutMarker(pre.lines[l + 1], Min({HashRun(pre.lines[l + 1]), 6}))

\* C10 amended: setHeadingLevel(level) replaces each selected line by the
\* marker of the level ('#' level times and one blank, nothing for level 0)
\* followed by the old line without its whole leading run of hashes, however
\* long, and without one blank directly after the run, if there is one; the
\* other lines stay as they were.
C10_StripsAllHashes ==
  HeadingSet =>
    /\ Len(lines) = Len(pre.lines)
    /\ \A l \in 0..(Len(lines) - 1) :
         lines[l + 1] =
           IF l \in FirstLine..LastLine
           THEN Repeat("#", op.arg) \o (IF op.arg = 0 THEN <<>> ELSE <<" ">>)
                \o WithoutMarker(pre.lines[l + 1], HashRun(pre.lines[l + 1]))
           ELSE pre.lines[l + 1]

\* "####### a" at level 3 became "### a"
C10_SevenHashes ==
  /\ HeadingSet /\ op.arg = 3
  /\ pre.lines = << Repeat("#", 7) \o <<" ", "a">> >>
  /\ lines = << <<"#", "#", "#", " ", "a">> >>

-----------------------------------------------------------------------------
(* The calls of one operation *)

\* C11: the calls of every operation that changes the text are, in this
\* order: listSelections, then replaceRange calls only, then one
\* setSelections with one range for every selection the operation read, then
\* focus as the last call.
C11_CallOrder ==
  step >= 1 =>
    /\ Len(calls) >= 3
    /\ calls[1].fn = "listSelections"
    /\ \A k \in 2..(Len(calls) - 2) : calls[k].fn = "replaceRange"
    /\ calls[Len(calls) - 1].fn = "setSelections"
    /\ calls[Len(calls)].fn = "focus"
    /\ Len(passed) = Len(pre.sels)

-----------------------------------------------------------------------------
(* Code blocks around several selections *)

\* A range covers whole lines of the text, with a fence on the line above
\* and a fence on the line below
Fenced(ls, r, fence) ==
  /\ RFrom(r).ch = 0 /\ RTo(r).ch = Len(ls[RTo(r).line + 1])
  /\ RFrom(r).line >= 1 /\ ls[RFrom(r).line] = fence
  /\ RTo(r).line + 2 <= Len(ls) /\ ls[RTo(r).line + 2] = fence

\* The text with the selections k, k + 1, ... each put between two fences.
\* The last selection is wrapped first, so that the positions of the
\* selections before it are those of the text as it was.
RECURSIVE WrappedFrom(_, _, _, _)
WrappedFrom(ls, ss, k, fence) ==
  IF k > Len(ss) THEN ls
  ELSE LET Opened(ed) ==
             ReplaceRange(ed, (IF RFrom(ss[k]).ch > 0 THEN <<"\n">> ELSE <<>>)
                              \o fence \o <<"\n">>,
                          RFrom(ss[k]), RFrom(ss[k]), "").lines
           Closed(rest) ==
             Opened(ReplaceRange(Editor(rest, <<>>), <<"\n">> \o fence \o <<"\n">>,
                                 RTo(ss[k]), RTo(ss[k]), ""))
       IN  Closed(WrappedFrom(ls, ss, k + 1, fence))

SeveralWrapped == step = 1 /\ op.name = "insertCodeBlock" /\ Len(pre.sels) >= 2

\* C12: after insertCodeBlock on several selections, carets or not, the text
\* is the old text with each selection put between two fences of its own at
\* the place where it was, and every selection the editor holds covers the
\* text the selection of the same index covered before, between its fences.
C12_WrapsEverySelection ==
  SeveralWrapped =>
    /\ lines = WrappedFrom(pre.lines, pre.sels, 1, op.arg)
    /\ Len(sels) = Len(pre.sels)
    /\ \A i \in 1..Len(sels) :
         /\ TextOf(lines, sels[i]) = TextOf(pre.lines, pre.sels[i])
         /\ Fenced(lines, sels[i], op.arg)

-----------------------------------------------------------------------------
(* The text insertBlockTemplateBelow inserts *)

\* C13: the text insertBlockTemplateBelow inserts for selection i is the
\* template of the call, with one line break before it when the line the
\* selection ends on holds text and with none when that line is empty,
\* whatever the lines of the selections before i held.
C13_OneBreakPerSelection ==
  (step = 1 /\ op.name \in BelowOps) =>
    /\ Len(Insertions) = Len(pre.sels)
    /\ \A i \in 1..Len(pre.sels) :
         Insertions[i].text =
           (IF pre.lines[RTo(pre.sels[i]).line + 1] # <<>> THEN <<"\n">> ELSE <<>>) \o op.arg

-----------------------------------------------------------------------------
(* Inline templates *)

TemplateOps == {"insertLink", "insertImageLink"}

\* The text with the two parts of a template put around each of the
\* selections k, k + 1, ..., the last selection first
RECURSIVE TemplatesFrom(_, _, _, _)
TemplatesFrom(ls, ss, k, template) ==
  IF k > Len(ss) THEN ls
  ELSE LET Opened(ed) ==
             ReplaceRange(ed, template[1], RFrom(ss[k]), RFrom(ss[k]), "").lines
           Closed(rest) ==
             Opened(ReplaceRange(Editor(rest, <<>>), template[2], RTo(ss[k]), RTo(ss[k]), ""))
       IN  Closed(TemplatesFrom(ls, ss, k + 1, template))

\* C14: insertInlineTemplate puts the first part of the template directly
\* before the start and the second part directly after the end of every
\* selection, and every selection the editor then holds covers the text the
\* selection of the same index covered before.
C14_TemplateKeepsSelectedText ==
  (step = 1 /\ op.name \in TemplateOps) =>
    /\ lines = TemplatesFrom(pre.lines, pre.sels, 1, op.arg)
    /\ Len(sels) = Len(pre.sels)
    /\ \A i \in 1..Len(sels) : TextOf(lines, sels[i]) = TextOf(pre.lines, pre.sels[i])

-----------------------------------------------------------------------------
(* Inline toggles on carets *)

\* The two replaceRange calls an inline toggle makes for selection i: the
\* one at the end of the selection, then the one at its start
SuffixCall(i) == calls[2 * i]

PrefixCall(i) == calls[2 * i + 1]

Inserted(c) == c.fn = "replaceRange" /\ c.text # <<>>

Removed(c) == c.fn = "replaceRange" /\ c.text = <<>>

MarkdownEditorOps == {"MarkdownEditor." \o name : name \in DOMAIN MarkdownEditorTokens}

\* an inline toggle of either class
InlineToggled == step >= 1 /\ op.name \in InlineOps \cup MarkdownEditorOps

\* C15: an inline toggle leaves every caret of a list of selections a caret.
\* A caret that is the only selection stands, when the toggle inserted both
\* tokens, directly after the opening and directly before the closing token,
\* which were put into the line at the caret; when the toggle removed both,
\* it stands where the removed token before it began, the line being the old
\* line without the token on each side of the caret.
C15_CaretStaysCaret ==
  InlineToggled =>
    /\ \A i \in 1..Len(pre.sels) : Empty(pre.sels[i]) => Empty(sels[i])
    /\ (Len(pre.sels) = 1 /\ Empty(pre.sels[1])) =>
         LET c == pre.sels[1].head
             n == Len(op.arg)
             old == pre.lines[c.line + 1]
             new == lines[c.line + 1]
         IN  /\ (Inserted(SuffixCall(1)) /\ Inserted(PrefixCall(1))) =>
                  /\ new = Slice(old, 0, c.ch) \o op.arg \o op.arg \o Slice(old, c.ch, Len(old))
                  /\ sels[1].head = Pos(c.line, c.ch + n)
             /\ (Removed(SuffixCall(1)) /\ Removed(PrefixCall(1))) =>
                  /\ new = Slice(old, 0, c.ch - n) \o Slice(old, c.ch + n, Len(old))
                  /\ sels[1].head = Pos(c.line, c.ch - n)
                  /\ sels[1].head = PrefixCall(1).from

\* the caret between "**" and "**" lost both tokens
C15_CaretUnwrapped ==
  /\ step = 1 /\ op.name = "toggleItalic"
  /\ pre.lines = << <<"*", "*", "a">> >>
  /\ Len(pre.sels) = 1 /\ pre.sels[1].head = Pos(0, 1) /\ Empty(pre.sels[1])
  /\ lines = << <<"a">> >>
  /\ sels[1].head = Pos(0, 0)

-----------------------------------------------------------------------------
(* The renumbering pass of toggleOrderedList *)

\* The replaceRange calls of the pass when one line is selected: all calls
\* between listSelections and the replacement of the selected line itself
PassCalls == SubSeq(calls, 2, Len(calls) - 3)

\* The first line below line l that is missing (Len(ls)), empty or not numbered
StopLine(ls, l) == Min({k \in (l + 1)..Len(ls) : k = Len(ls) \/ ~IsNumbered(ls[k + 1])})

\* C16: the renumbering pass ends.  With one line selected it makes one
\* replacement per numbered line of the run directly below the selected
\* line, in order from the top, each from column 0 to the first '.' of its
\* line and by digits only, and none at or below the first line that is
\* missing, empty or not numbered.  For every selection the text keeps its
\* number of lines, every line at or below that stopping line stays as it
\* was, and every line between the selection and the stopping line keeps its
\* text from the '.' on.
C16_RenumberingPass ==
  OrderedToggled =>
    /\ Len(lines) = Len(pre.lines)
    /\ \A k \in StopLine(pre.lines, LastLine)..(Len(lines) - 1) : lines[k + 1] = pre.lines[k + 1]
    /\ \A k \in (LastLine + 1)..(StopLine(pre.lines, LastLine) - 1) :
         /\ FromDot(lines[k + 1]) = FromDot(pre.lines[k + 1])
         /\ \A c \in 1..DotPos(lines[k + 1]) : lines[k + 1][c] \in DigitChars
    /\ FirstLine = LastLine =>
         /\ Len(PassCalls) = StopLine(pre.lines, FirstLine) - FirstLine - 1
         /\ \A j \in 1..Len(PassCalls) :
              /\ PassCalls[j].fn = "replaceRange"
              /\ PassCalls[j].from = Pos(FirstLine + j, 0)
              /\ PassCalls[j].to = Pos(FirstLine + j, DotPos(pre.lines[FirstLine + j + 1]))
              /\ PassCalls[j].text # <<>>
              /\ \A c \in 1..Len(PassCalls[j].text) : PassCalls[j].text[c] \in DigitChars

\* "a", "3. b", "c" with a caret on the first line: the pass renumbered the
\* second line and stopped at the third
C16_StoppedAtPlainLine ==
  /\ step = 1 /\ op.name = "toggleOrderedList"
  /\ pre.lines = << <<"a">>, <<"3", ".", " ", "b">>, <<"c">> >>
  /\ FirstLine = 0 /\ LastLine = 0
  /\ Len(PassCalls) = 1
  /\ lines = << <<"1", ".", " ", "a">>, <<"2", ".", " ", "b">>, <<"c">> >>

-----------------------------------------------------------------------------
(* Origins *)

\* The calls of the last operation that change the state of the editor
Changing == SelectSeq(calls, LAMBDA c : c.fn \in {"replaceRange", "setSelections"})

\* C17: all calls of one operation that change the state of the editor, its
\* replaceRange calls and its setSelections call, carry the same origin.
C17_OneOrigin ==
  step >= 1 => \A j, k \in 1..Len(Changing) : Changing[j].origin = Changing[k].origin

-----------------------------------------------------------------------------
(* MarkdownEditorFromTextarea: options and the handler that saves *)

OptionNames == {"richTextMode", "lineWrapping", "autoSync"}

\* The options a caller hands over: any of the fields, each with a value
GivenOptions == UNION {[D -> BOOLEAN] : D \in SUBSET OptionNames}

\* _.merge(object, source): the fields of source overwrite those of object
Merge(object, source) ==
  [f \in DOMAIN object |-> IF f \in DOMAIN source THEN source[f] ELSE object[f]]

ModeOf(o) == IF o.richTextMode THEN "gfm" ELSE ""

OptionCall(fn, name) == Call(fn, name, Pos(0, 0), Pos(0, 0), "", TRUE)

\* The calls of applyCodemirrorOptions and applyEditorKeyMappings
ApplyCalls ==
  <<OptionCall("setOption", "autofocus"), OptionCall("setOption", "lineWrapping"),
    OptionCall("setOption", "placeholder"), OptionCall("setOption", "mode"),
    OptionCall("setOption", "tabSize"), OptionCall("setOption", "theme"),
    OptionCall("setOption", "extraKeys")>>

\* The texts of the textarea and of setContent
Contents == {<< <<>> >>, << <<"a">> >>, << <<"a">>, <<"b">> >>}

CaretAtStart == <<Rng(Pos(0, 0), Pos(0, 0), TRUE)>>

\* The editor after new MarkdownEditorFromTextarea(textarea, given)
InitTextarea ==
  \E content \in Contents, o \in [OptionNames -> BOOLEAN] :
    /\ lines = content
    /\ sels = CaretAtStart
    /\ passed = <<>>
    /\ calls = ApplyCalls
    /\ op = [name |-> "new", arg |-> o]
    /\ pre = [lines |-> content, sels |-> CaretAtStart]
    /\ orig = [lines |-> content, sels |-> CaretAtStart]
    /\ step = 0
    /\ options = o
    /\ cmMode = ModeOf(o)
    /\ saver = FALSE
    /\ handlers = 0
    /\ textarea = content

\* What every operation of the editor made from a textarea records
Invoked(o, cs) ==
  /\ step < MaxCalls
  /\ passed' = <<>>
  /\ calls' = cs
  /\ op' = o
  /\ pre' = [lines |-> lines, sels |-> sels]
  /\ orig' = orig
  /\ step' = step + 1

SetOptions ==
  \E given \in GivenOptions :
    LET opts == Merge(options, given)
    IN  /\ Invoked([name |-> "setOptions", arg |-> given],
                   ApplyCalls
                   \o (IF ~saver /\ opts.autoSync THEN <<OptionCall("on", "changes")>>
                       ELSE IF saver /\ ~opts.autoSync THEN <<OptionCall("off", "changes")>>
                       ELSE <<>>))
        /\ options' = opts
        /\ cmMode' = ModeOf(opts)
        /\ saver' = (IF ~saver /\ opts.autoSync THEN TRUE
                     ELSE IF saver /\ ~opts.autoSync THEN FALSE ELSE saver)
        /\ handlers' = (IF ~saver /\ opts.autoSync THEN handlers + 1
                        ELSE IF saver /\ ~opts.autoSync THEN handlers - 1 ELSE handlers)
        /\ UNCHANGED <<lines, sels, textarea>>

ToggleRichTextMode ==
  /\ Invoked([name |-> "toggleRichTextMode", arg |-> <<>>],
             <<OptionCall("getOption", "mode"), OptionCall("setOption", "mode")>>)
  /\ cmMode' = (IF cmMode = "gfm" THEN "" ELSE "gfm")
  /\ UNCHANGED <<lines, sels, options, saver, handlers, textarea>>

\* cm.setValue fires 'changes'; every registered handler copies the text to
\* the textarea
SetContent ==
  \E content \in Contents :
    /\ Invoked([name |-> "setContent", arg |-> content],
               <<OptionCall("setValue", "")>>
               \o (IF handlers > 0 THEN <<OptionCall("save", "")>> ELSE <<>>))
    /\ lines' = content
    /\ sels' = CaretAtStart
    /\ textarea' = (IF handlers > 0 THEN content ELSE textarea)
    /\ UNCHANGED <<options, cmMode, saver, handlers>>

Save ==
  /\ Invoked([name |-> "save", arg |-> <<>>], <<OptionCall("save", "")>>)
  /\ textarea' = lines
  /\ UNCHANGED <<lines, sels, options, cmMode, saver, handlers>>

NextTextarea == SetOptions \/ ToggleRichTextMode \/ SetContent \/ Save

SpecTextarea == InitTextarea /\ [][NextTextarea]_vars

\* C18: in every state of an editor made from a textarea, after construction
\* and after every setOptions call, one handler that saves is registered for
\* 'changes' when the option autoSync is true, and none when it is not.
C18_SaverIffAutoSync == handlers = (IF options.autoSync THEN 1 ELSE 0)

-----------------------------------------------------------------------------
(* Toggling a line marker twice *)

\* C19: toggleQuote, and toggleUnorderedList, invoked twice in a row on one
\* selection, the second time on the selection the first left, gives every
\* line of the selection the text it had, also a line that starts with
\* blanks.
C19_MarkerTwiceRestoresLines ==
  (step = 2 /\ op.name \in {"toggleQuote", "toggleUnorderedList"}) =>
    /\ Len(lines) = Len(orig.lines)
    /\ \A l \in RFrom(orig.sels[1]).line..RTo(orig.sels[1]).line :
         lines[l + 1] = orig.lines[l + 1]

-----------------------------------------------------------------------------
(* What the inline operations change *)

\* The tokens an inline toggle looks for and removes
TokensOf(o) ==
  IF o.name = "toggleBold" THEN {BOLD_TOKENS[k] : k \in 1..Len(BOLD_TOKENS)}
  ELSE IF o.name = "toggleItalic" THEN {ITALIC_TOKENS[k] : k \in 1..Len(ITALIC_TOKENS)}
  ELSE IF o.name \in InlineOps THEN {o.arg}
  ELSE {}

\* The strings an inline operation puts before and after a selection
OpeningOf(o) == IF o.name \in InlineOps THEN o.arg ELSE o.arg[1]

ClosingOf(o) == IF o.name \in InlineOps THEN o.arg ELSE o.arg[2]

Put(ed, text, p) == ReplaceRange(ed, text, p, p, "")

Cut(ed, p, n) == ReplaceRange(ed, <<>>, p, Pos(p.line, p.ch + n), "")

\* The editors made from ed by one change directly after position p: the
\* closing string is put there, or a token that stands there is taken out
AfterEdge(ed, p, o) ==
  {Put(ed, ClosingOf(o), p)} \cup
  {Cut(ed, p, Len(t)) : t \in {u \in TokensOf(o) :
     StartsWith(Slice(GetLine(ed.lines, p.line), p.ch, Len(GetLine(ed.lines, p.line))), u)}}

\* The same directly before position p
BeforeEdge(ed, p, o) ==
  {Put(ed, OpeningOf(o), p)} \cup
  {Cut(ed, Pos(p.line, p.ch - Len(t)), Len(t)) : t \in {u \in TokensOf(o) :
     EndsWith(Slice(GetLine(ed.lines, p.line), 0, p.ch), u)}}

\* The texts made from the text of ed by one change at each edge of each of
\* the selections k, k + 1, ... of ed, from the first to the last.  Where a
\* selection lies after the changes made for the selections before it is
\* what the editor itself keeps track of (ed.live).
RECURSIVE EdgeChanges(_, _, _)
EdgeChanges(ed, k, o) ==
  IF k > Len(ed.live) THEN {ed.lines}
  ELSE UNION {UNION {EdgeChanges(e, k + 1, o) :
                       e \in BeforeEdge(c, RFrom(ed.live[k]), o)} :
                c \in AfterEdge(ed, RTo(ed.live[k]), o)}

EdgeLines(ss) == {RFrom(ss[i]).line : i \in 1..Len(ss)} \cup {RTo(ss[i]).line : i \in 1..Len(ss)}

\* The text before call k + 1 of the last operation
RECURSIVE TextAfter(_)
TextAfter(k) ==
  IF k = 0 THEN pre.lines
  ELSE IF calls[k].fn = "replaceRange"
       THEN ReplaceRange(Editor(TextAfter(k - 1), <<>>), calls[k].text,
                         calls[k].from, calls[k].to, "").lines
       ELSE TextAfter(k - 1)

\* Call k puts the opening or the closing string of the operation into one
\* line, or takes a text out of one line that is one of its tokens
TokenChange(k) ==
  /\ calls[k].from.line = calls[k].to.line
  /\ calls[k].from.line \in EdgeLines(pre.sels)
  /\ \/ /\ calls[k].from = calls[k].to
        /\ calls[k].text \in {OpeningOf(op), ClosingOf(op)}
     \/ /\ calls[k].text = <<>>
        /\ calls[k].from.ch < calls[k].to.ch
        /\ GetRange(TextAfter(k - 1), calls[k].from, calls[k].to) \in TokensOf(op)

\* No selection begins within the length of a token after the end of the
\* selection before it
WellApart(ss, n) ==
  \A i \in 1..(Len(ss) - 1) :
    RFrom(ss[i + 1]).line = RTo(ss[i]).line => RFrom(ss[i + 1]).ch - RTo(ss[i]).ch >= n

-----------------------------------------------------------------------------
(* The two editions of the inline toggle *)

\* The operations whose token has no alternative tokens
PlainTokenOps == {"toggleStrikethrough", "toggleInlineCode"}

\* The anchor and the head of every range of a list
Ends(ss) == [k \in 1..Len(ss) |-> <<ss[k].anchor, ss[k].head>>]

\* The result of one edition equals what the other edition yields on the
\* text and the selection the operation was invoked on
SameAs(r) == lines = r.lines /\ Ends(sels) = Ends(r.live)

\* C21: for a token without alternative tokens and a single selection, the
\* toggle of MarkdownEditorBase (src/lib/src) and the toggle of MarkdownEditor
\* (src/src) leave the same text and install the same selection, anchor and head.
C21_EditionsAgree ==
  (step >= 1 /\ Len(pre.sels) = 1) =>
    /\ op.name \in PlainTokenOps =>
         SameAs(MarkdownEditorToggleInlineFormatting(pre.lines, pre.sels, op.arg))
    /\ op.name \in {"MarkdownEditor." \o name : name \in PlainTokenOps} =>
         SameAs(ToggleInlineFormatting(pre.lines, pre.sels, op.arg, <<>>))

====
